---- MODULE Spec2Model ----
(***************************************************************************)
(* Model of croppy (src/src/croppy/croppy.py): crop_to_shape, crop_roi and *)
(* _full_array_slices over NumPy arrays.                                   *)
(*                                                                         *)
(* An array is a NumPy view: a shape and, per axis, the offset of its      *)
(* first element in the storage of the array the caller created.  The      *)
(* element at index idx of a view is the storage cell origin + idx, so     *)
(* two views hold the same elements at the same positions exactly when     *)
(* they address the same cells.  Axes are 0-based as in the source;        *)
(* sequences are 1-based, so axis d is position d + 1.                     *)
(***************************************************************************)
EXTENDS Integers, Sequences, FiniteSets

\* ---------------------------------------------------------------- bounds
MaxDim == 3        \* largest extent of an axis of an input array
MaxTrue == 2       \* most true elements of a mask of the array's shape
MaxAxis == 2       \* axis indices of the axes argument are -MaxAxis..MaxAxis

Ndims == 1..2      \* ranks of the arrays, masks and target shapes modelled

Dims == 0..MaxDim
Shapes == UNION {[1..n -> Dims] : n \in Ndims}

\* the arrays of the docstring examples: np.arange(100).reshape((10, 10)),
\* cropped to (6, 6), and np.zeros((5, 5))
ExampleShapes == {<<10, 10>>, <<5, 5>>}
ExampleTargets == {<<6, 6>>}
ArrayShapes == Shapes \cup ExampleShapes
TargetShapes == Shapes \cup ExampleTargets
AxisVals == (0 - MaxAxis)..MaxAxis

Max(a, b) == IF a >= b THEN a ELSE b
Min(a, b) == IF a <= b THEN a ELSE b

\* ---------------------------------------------------------------- arrays
Ndim(a) == Len(a.shape)

\* the index tuples of an array of the given shape
Indices(shape) ==
    LET extents == {shape[i] : i \in 1..Len(shape)}
    IN  {idx \in [1..Len(shape) -> UNION {0..(n - 1) : n \in extents}] :
            \A i \in 1..Len(shape) : idx[i] < shape[i]}

\* the storage cell that a[idx] reads
Elem(a, idx) == [i \in 1..Ndim(a) |-> a.origin[i] + idx[i]]

\* np.arange(...).reshape(shape): a freshly created array owns its storage
NewArray(shape) == [shape |-> shape, origin |-> [i \in 1..Len(shape) |-> 0]]

NoArray == [shape |-> <<>>, origin |-> <<>>]

\* ---------------------------------------------------------------- slices
\* np.s_[:] is slice(None, None); np.s_[start:end] is slice(start, end)
FullSlice == [full |-> TRUE, start |-> 0, stop |-> 0]
Slice(start, end) == [full |-> FALSE, start |-> start, stop |-> end]

\* slice.indices(n) for a step of 1: negative bounds count from the end,
\* and both bounds are clipped to 0..n
ClipBound(v, n) == IF v < 0 THEN Max(v + n, 0) ELSE Min(v, n)

SliceRange(sl, n) ==
    IF sl.full THEN [start |-> 0, stop |-> n]
    ELSE [start |-> ClipBound(sl.start, n), stop |-> ClipBound(sl.stop, n)]

\* array[slices] for a tuple of one slice per axis: a view on the same storage
IndexOrigin(origin, start) == origin + start

Index(a, slices) ==
    LET r == [i \in 1..Ndim(a) |-> SliceRange(slices[i], a.shape[i])]
    IN  [shape  |-> [i \in 1..Ndim(a) |-> Max(r[i].stop - r[i].start, 0)],
         origin |-> [i \in 1..Ndim(a) |-> IndexOrigin(a.origin[i], r[i].start)]]

\* --------------------------------------------------------------- results
\* every error of the module is a ValueError; `error` names which one
Raise(error, steps) ==
    [status |-> "raised", error |-> error, value |-> NoArray,
     has_slices |-> FALSE, slices |-> <<>>, steps |-> steps]

\* the slices returned in reverse axis order
ReturnReversed(cropped_array, slices, return_slices, steps) ==
    [status |-> "returned", error |-> "", value |-> cropped_array,
     has_slices |-> return_slices,
     slices |-> IF return_slices
                THEN [i \in 1..Len(slices) |-> slices[Len(slices) + 1 - i]]
                ELSE <<>>,
     steps |-> steps]

\* `return cropped_array, slices` when return_slices, else `return cropped_array`
Return(cropped_array, slices, return_slices, steps) ==
    [status |-> "returned", error |-> "", value |-> cropped_array,
     has_slices |-> return_slices,
     slices |-> IF return_slices THEN slices ELSE <<>>, steps |-> steps]

\* ---------------------------------------------------------- crop_to_shape
DimensionMismatch(shape, a) == Len(shape) # Ndim(a)

\* np.all in place of np.any
ShapeTooLargeAll(target_shape, array_shape) ==
    \A i \in 1..Len(array_shape) : target_shape[i] > array_shape[i]

\* >= in place of >
ShapeTooLargeOrEqual(target_shape, array_shape) ==
    \E i \in 1..Len(array_shape) : target_shape[i] >= array_shape[i]

\* np.any(target_shape > array_shape)
ShapeTooLarge(target_shape, array_shape) ==
    \E i \in 1..Len(array_shape) : target_shape[i] > array_shape[i]

\* rounding up in place of down
CropStartCeil(delta) == (delta + 1) \div 2

CropStart(delta) == delta \div 2

\* the start subtracted from the end, without the odd element
CropEndSymmetric(array_len, delta, crop_start) == array_len - crop_start

CropEnd(array_len, delta, crop_start) == array_len - (delta - crop_start)

crop_to_shape(a, shape, return_slices) ==
    IF DimensionMismatch(shape, a)
    THEN Raise("DimensionMismatch", <<"check_ndim">>)
    ELSE IF ShapeTooLarge(shape, a.shape)
    THEN Raise("ShapeTooLarge", <<"check_ndim", "check_size">>)
    ELSE LET delta == [i \in 1..Ndim(a) |-> a.shape[i] - shape[i]]
             crop_start == [i \in 1..Ndim(a) |-> CropStart(delta[i])]
             crop_end == [i \in 1..Ndim(a) |->
                             CropEnd(a.shape[i], delta[i], crop_start[i])]
             slices == [i \in 1..Ndim(a) |-> Slice(crop_start[i], crop_end[i])]
         IN  Return(Index(a, slices), slices, return_slices,
                    <<"check_ndim", "check_size", "slices", "index">>)

\* --------------------------------------------------------------- crop_roi
full_array_slices(a) == [i \in 1..Ndim(a) |-> FullSlice]

\* the ranks compared in place of the shapes
NdimMismatch(a, roi_mask) == Ndim(a) # Len(roi_mask.shape)

ShapeMismatch(a, roi_mask) == a.shape # roi_mask.shape

\* clipping into range in place of wrapping
ClipAxis(i, ndim) == IF i < 0 THEN 0 ELSE IF i >= ndim THEN ndim - 1 ELSE i

NormalizeAxis(i, ndim) == i % ndim

\* the axes argument ignored: every axis is bounded
AllAxesIndices(axes, ndim) == [k \in 1..ndim |-> k - 1]

\* axes is None, an int or a tuple of ints: axes.v is np.atleast_1d(axes)
AxesIndices(axes, ndim) ==
    IF axes.kind = "None" THEN [k \in 1..ndim |-> k - 1]
    ELSE [k \in 1..Len(axes.v) |-> NormalizeAxis(axes.v[k], ndim)]

\* np.argwhere(roi_mask).T[dimension]: the coordinates, along one axis, of
\* the true elements (min and max read only the set of their values)
roi_indices(roi_mask, dimension) == {c[dimension + 1] : c \in roi_mask.trues}

SetMin(S) == CHOOSE x \in S : \A y \in S : x <= y
SetMax(S) == CHOOSE x \in S : \A y \in S : x >= y

RoiStart(coords) == SetMin(coords)

\* the end without its + 1
RoiEndInclusive(coords) == SetMax(coords)

RoiEnd(coords) == SetMax(coords) + 1

\* an axis without true elements keeps its full range
RECURSIVE BoundAxesSkipEmpty(_, _, _, _)
BoundAxesSkipEmpty(slices, axes_indices, k, roi_mask) ==
    IF k > Len(axes_indices) THEN [ok |-> TRUE, slices |-> slices]
    ELSE LET dimension == axes_indices[k]
             coords == roi_indices(roi_mask, dimension)
         IN  BoundAxesSkipEmpty(
                 IF coords = {} THEN slices
                 ELSE [slices EXCEPT ![dimension + 1] =
                          Slice(RoiStart(coords), SetMax(coords) + 1)],
                 axes_indices, k + 1, roi_mask)

\* the loop `for dimension in axes_indices`, from its k-th iteration on;
\* ndarray.min() of a zero-size array raises ValueError
RECURSIVE BoundAxes(_, _, _, _)
BoundAxes(slices, axes_indices, k, roi_mask) ==
    IF k > Len(axes_indices) THEN [ok |-> TRUE, slices |-> slices]
    ELSE LET dimension == axes_indices[k]
             coords == roi_indices(roi_mask, dimension)
         IN  IF coords = {} THEN [ok |-> FALSE, slices |-> <<>>]
             ELSE BoundAxes(
                      [slices EXCEPT ![dimension + 1] =
                          Slice(RoiStart(coords), RoiEnd(coords))],
                      axes_indices, k + 1, roi_mask)

crop_roi(a, roi_mask, axes, return_slices) ==
    IF ShapeMismatch(a, roi_mask)
    THEN Raise("ShapeMismatch", <<"check_shape">>)
    ELSE LET axes_indices == AxesIndices(axes, Ndim(a))
             bounded == BoundAxes(full_array_slices(a), axes_indices, 1, roi_mask)
         IN  IF ~bounded.ok
             THEN Raise("EmptyRegionError",
                        <<"check_shape", "axes", "argwhere", "full_slices", "min">>)
             ELSE Return(Index(a, bounded.slices), bounded.slices, return_slices,
                         <<"check_shape", "axes", "argwhere", "full_slices",
                           "bounds", "index">>)

\* ---------------------------------------------------------------- inputs
RECURSIVE SubsetsUpTo(_, _)
SubsetsUpTo(S, k) ==
    IF k = 0 THEN {{}}
    ELSE LET smaller == SubsetsUpTo(S, k - 1)
         IN  smaller \cup {T \cup {x} : T \in smaller, x \in S}

Mask(shape, trues) == [shape |-> shape, trues |-> trues]

\* masks with up to MaxTrue true elements, for the shapes within MaxDim
SparseMasks(shape) ==
    IF shape \in Shapes
    THEN {Mask(shape, T) : T \in SubsetsUpTo(Indices(shape), MaxTrue)}
    ELSE {}

\* masks true on a block, as after arr[1:4, 2:5] = 1; arr.astype(bool), for
\* the shapes within MaxDim and the (5, 5) of the docstring example
BlockMasks(shape) ==
    LET n == Len(shape)
        bounds == UNION {0..m : m \in {shape[i] : i \in 1..n}}
    IN  IF shape \in Shapes \cup {<<5, 5>>}
        THEN {Mask(shape, {idx \in Indices(shape) :
                              \A i \in 1..n : lo[i] <= idx[i] /\ idx[i] < hi[i]}) :
                 lo \in [1..n -> bounds],
                 hi \in {h \in [1..n -> bounds] : \A i \in 1..n : h[i] <= shape[i]}}
        ELSE {}

\* masks of another shape, all false or true at their first element
OtherMasks(shape) ==
    UNION {{Mask(s, T) :
               T \in SubsetsUpTo(Indices(s) \cap {[i \in 1..Len(s) |-> 0]}, 1)} :
              s \in ArrayShapes \ {shape}}

MaskInputs(a) ==
    SparseMasks(a.shape) \cup BlockMasks(a.shape) \cup OtherMasks(a.shape)

AxesNone == [kind |-> "None", v |-> <<>>]
AxesInt(i) == [kind |-> "int", v |-> <<i>>]
AxesTuple(t) == [kind |-> "tuple", v |-> t]

AxesInputs ==
    {AxesNone} \cup {AxesInt(i) : i \in AxisVals}
    \cup {AxesTuple(t) : t \in UNION {[1..n -> AxisVals] : n \in 0..2}}

\* ----------------------------------------------------------------- state
VARIABLES array, pc, call, result, prev
vars == <<array, pc, call, result, prev>>

NoCall == [op |-> "", arr |-> NoArray, shape |-> <<>>, roi_mask |-> Mask(<<>>, {}),
           axes |-> AxesNone, return_slices |-> FALSE]
NoResult == Raise("", <<>>)
NoPrev == [valid |-> FALSE, shape |-> <<>>, value |-> NoArray]

Init ==
    /\ array \in {NewArray(s) : s \in ArrayShapes}
    /\ pc = "idle"
    /\ call = NoCall
    /\ result = NoResult
    /\ prev = NoPrev

\* the caller crops its array to a target shape
CallCropToShape ==
    /\ pc = "idle"
    /\ \E shape \in TargetShapes, return_slices \in BOOLEAN :
        /\ call' = [NoCall EXCEPT !.op = "crop_to_shape", !.arr = array,
                       !.shape = shape, !.return_slices = return_slices]
        /\ result' = crop_to_shape(array, shape, return_slices)
    /\ pc' = "returned"
    /\ UNCHANGED <<array, prev>>

\* the caller crops the array a crop_to_shape call returned once more
CallCropToShapeAgain ==
    /\ pc = "returned"
    /\ call.op = "crop_to_shape"
    /\ result.status = "returned"
    /\ \E shape \in TargetShapes, return_slices \in BOOLEAN :
        /\ call' = [NoCall EXCEPT !.op = "crop_to_shape", !.arr = result.value,
                       !.shape = shape, !.return_slices = return_slices]
        /\ result' = crop_to_shape(result.value, shape, return_slices)
    /\ prev' = [valid |-> TRUE, shape |-> call.shape, value |-> result.value]
    /\ pc' = "returned"
    /\ UNCHANGED array

\* the caller crops its array to the region of interest of a mask
CallCropRoi ==
    /\ pc = "idle"
    /\ \E roi_mask \in MaskInputs(array), axes \in AxesInputs,
          return_slices \in BOOLEAN :
        /\ call' = [NoCall EXCEPT !.op = "crop_roi", !.arr = array,
                       !.roi_mask = roi_mask, !.axes = axes,
                       !.return_slices = return_slices]
        /\ result' = crop_roi(array, roi_mask, axes, return_slices)
    /\ pc' = "returned"
    /\ UNCHANGED <<array, prev>>

\* the caller is done with the result
Done ==
    /\ pc = "returned"
    /\ pc' = "idle"
    /\ call' = NoCall
    /\ result' = NoResult
    /\ prev' = NoPrev
    /\ UNCHANGED array

Next == CallCropToShape \/ CallCropToShapeAgain \/ CallCropRoi \/ Done

Spec == Init /\ [][Next]_vars

TypeOK ==
    /\ pc \in {"idle", "returned"}
    /\ result.status \in {"returned", "raised"}

\* ---------------------------------------------------------------- claims
\* what the caller can observe of the last call
Axes(a) == 1..Ndim(a)
Steps == {result.steps[k] : k \in 1..Len(result.steps)}
NothingReturned == result.value = NoArray /\ ~result.has_slices /\ result.slices = <<>>

\* elements dropped in front of, and behind, the result along axis i
Leading(i) == result.value.origin[i] - call.arr.origin[i]
Trailing(i) == call.arr.shape[i] - (Leading(i) + result.value.shape[i])

ArraysEqual(a, b) ==
    /\ a.shape = b.shape
    /\ \A idx \in Indices(a.shape) : Elem(a, idx) = Elem(b, idx)

CropToShapeDone == pc = "returned" /\ call.op = "crop_to_shape"
CropRoiDone == pc = "returned" /\ call.op = "crop_roi"

\* len(S) == A.ndim and S[i] <= A.shape[i] on every axis
ValidTarget ==
    /\ Len(call.shape) = Ndim(call.arr)
    /\ \A i \in Axes(call.arr) : call.shape[i] <= call.arr.shape[i]

\* C1: crop_to_shape of a valid target shape S returns an array of shape S.
C1_ShapeIsTarget ==
    (CropToShapeDone /\ ValidTarget) =>
        /\ result.status = "returned"
        /\ result.value.shape = call.shape

C1_Witness ==
    /\ CropToShapeDone
    /\ call.arr.shape = <<10, 10>>
    /\ call.shape = <<6, 6>>
    /\ result.value.shape = <<6, 6>>
    /\ result.has_slices
    /\ result.slices = <<Slice(2, 8), Slice(2, 8)>>

\* C2: along every axis crop_to_shape drops (A.shape[i] - S[i]) // 2 leading
\* elements and the remainder of the difference behind; an odd difference
\* drops one more behind than in front; the returned slice is that range.
C2_Centered ==
    (CropToShapeDone /\ ValidTarget) =>
        /\ result.status = "returned"
        /\ \A i \in Axes(call.arr) :
            LET d == call.arr.shape[i] - call.shape[i]
            IN  /\ Leading(i) = d \div 2
                /\ Trailing(i) = d - (d \div 2)
                /\ (d % 2 = 1) => (Trailing(i) = Leading(i) + 1)
                /\ result.has_slices =>
                       result.slices[i] =
                           Slice(Leading(i), call.arr.shape[i] - Trailing(i))

C2_Witness ==
    /\ CropToShapeDone
    /\ call.arr.shape = <<3, 3>>
    /\ call.shape = <<2, 1>>
    /\ result.has_slices
    /\ result.slices = <<Slice(0, 2), Slice(1, 2)>>

\* C3: crop_to_shape raises DimensionMismatch when len(S) != A.ndim and
\* ShapeTooLarge when the ranks agree and some S[i] > A.shape[i]; neither
\* computes or applies a slice, and nothing is returned.
C3_TargetErrors ==
    CropToShapeDone =>
        /\ Len(call.shape) # Ndim(call.arr) =>
              /\ result.status = "raised"
              /\ result.error = "DimensionMismatch"
              /\ Steps \cap {"slices", "index"} = {}
              /\ NothingReturned
        /\ (/\ Len(call.shape) = Ndim(call.arr)
            /\ \E i \in Axes(call.arr) : call.shape[i] > call.arr.shape[i]) =>
              /\ result.status = "raised"
              /\ result.error = "ShapeTooLarge"
              /\ Steps \cap {"slices", "index"} = {}
              /\ NothingReturned

C3_Witness ==
    /\ CropToShapeDone
    /\ call.arr.shape = <<2, 2>>
    /\ call.shape = <<3, 1>>
    /\ result.status = "raised"
    /\ result.error = "ShapeTooLarge"

\* the axes the axes argument selects, after normalization
SelectedAxes ==
    IF call.axes.kind = "None" THEN 0..(Ndim(call.arr) - 1)
    ELSE {call.axes.v[k] % Ndim(call.arr) : k \in 1..Len(call.axes.v)}

SameShape == call.arr.shape = call.roi_mask.shape

\* the range [lo, hi) is tight around the true elements along axis d
Tight(d, lo, hi) ==
    /\ \A c \in call.roi_mask.trues : lo <= c[d + 1] /\ c[d + 1] < hi
    /\ \E c \in call.roi_mask.trues : c[d + 1] = lo
    /\ \E c \in call.roi_mask.trues : c[d + 1] = hi - 1

\* C4: crop_roi(A, M, None) with a mask of A's shape that has a true element
\* uses on every axis the range [min(coord), max(coord) + 1) of the true
\* positions along that axis.
C4_RoiTight ==
    (CropRoiDone /\ SameShape /\ call.axes.kind = "None"
        /\ call.roi_mask.trues # {}) =>
        /\ result.status = "returned"
        /\ \A i \in Axes(call.arr) :
            /\ Tight(i - 1, Leading(i), Leading(i) + result.value.shape[i])
            /\ result.has_slices =>
                  /\ ~result.slices[i].full
                  /\ Tight(i - 1, result.slices[i].start, result.slices[i].stop)

C4_Witness ==
    /\ CropRoiDone
    /\ call.axes.kind = "None"
    /\ call.arr.shape = <<5, 5>>
    /\ call.roi_mask.trues = {<<r, c>> : r \in 1..3, c \in 2..4}
    /\ result.has_slices
    /\ result.slices = <<Slice(1, 4), Slice(2, 5)>>
    /\ result.value.shape = <<3, 3>>

\* C5: every axis that the axes argument does not select keeps its full
\* original range in the result of crop_roi, wherever the mask is true.
C5_UnselectedFull ==
    (CropRoiDone /\ result.status = "returned") =>
        \A i \in Axes(call.arr) :
            (i - 1) \notin SelectedAxes =>
                /\ Leading(i) = 0
                /\ result.value.shape[i] = call.arr.shape[i]
                /\ result.has_slices => result.slices[i] = FullSlice

C5_Witness ==
    /\ CropRoiDone
    /\ call.axes = AxesTuple(<<0>>)
    /\ call.arr.shape = <<3, 3>>
    /\ call.roi_mask.trues = {<<1, 1>>}
    /\ result.status = "returned"
    /\ result.value.shape = <<1, 3>>

\* C6: crop_roi with a mask without a true element and at least one selected
\* axis raises EmptyRegionError and returns neither an array nor slices.
C6_EmptyRegion ==
    (CropRoiDone /\ SameShape /\ call.roi_mask.trues = {}
        /\ SelectedAxes # {}) =>
        /\ result.status = "raised"
        /\ result.error = "EmptyRegionError"
        /\ NothingReturned

C6_Witness ==
    /\ CropRoiDone
    /\ call.arr.shape = <<2, 2>>
    /\ SameShape
    /\ call.roi_mask.trues = {}
    /\ call.axes = AxesInt(1)
    /\ result.status = "raised"

\* C7: the slices either function returns with return_slices, one per axis
\* in axis order, applied to the original array give the returned array:
\* the same shape and the same elements at the same positions.
C7_RoundTrip ==
    (pc = "returned" /\ result.status = "returned" /\ result.has_slices) =>
        /\ Len(result.slices) = Ndim(call.arr)
        /\ Ndim(result.value) = Ndim(call.arr)
        /\ LET r == [i \in Axes(call.arr) |->
                        SliceRange(result.slices[i], call.arr.shape[i])]
           IN  /\ \A i \in Axes(call.arr) :
                     /\ r[i].start <= r[i].stop
                     /\ result.value.shape[i] = r[i].stop - r[i].start
               /\ \A idx \in Indices(result.value.shape) :
                     Elem(result.value, idx) =
                         Elem(call.arr, [i \in Axes(call.arr) |-> r[i].start + idx[i]])

C7_Witness ==
    /\ CropRoiDone
    /\ result.status = "returned"
    /\ result.has_slices
    /\ call.arr.shape = <<3, 3>>
    /\ result.slices = <<FullSlice, Slice(1, 3)>>
    /\ result.value = [shape |-> <<3, 2>>, origin |-> <<0, 1>>]

\* C8: cropping the result of crop_to_shape(A, S) to S again gives that
\* result, and cropping an array to its own shape gives the whole array with
\* the slices (0, shape[i]).
C8_Idempotent ==
    CropToShapeDone =>
        /\ (prev.valid /\ call.shape = prev.shape) =>
              /\ result.status = "returned"
              /\ ArraysEqual(result.value, prev.value)
        /\ call.shape = call.arr.shape =>
              /\ result.status = "returned"
              /\ ArraysEqual(result.value, call.arr)
              /\ result.has_slices =>
                    \A i \in Axes(call.arr) :
                        result.slices[i] = Slice(0, call.arr.shape[i])

C8_Witness ==
    /\ CropToShapeDone
    /\ prev.valid
    /\ array.shape = <<3, 3>>
    /\ prev.shape = <<1, 2>>
    /\ call.shape = <<1, 2>>
    /\ result.has_slices
    /\ result.slices = <<Slice(0, 1), Slice(0, 2)>>
    /\ result.value = [shape |-> <<1, 2>>, origin |-> <<1, 0>>]

\* C9: crop_roi raises ShapeMismatch whenever the shapes of the array and
\* the mask differ, whatever the axes argument; it does so before the
\* coordinate scan and the slicing, and returns nothing.
C9_ShapeMismatch ==
    (CropRoiDone /\ ~SameShape) =>
        /\ result.status = "raised"
        /\ result.error = "ShapeMismatch"
        /\ Steps \cap {"argwhere", "full_slices", "min", "bounds", "index"} = {}
        /\ NothingReturned

C9_Witness ==
    /\ CropRoiDone
    /\ call.arr.shape = <<2, 2>>
    /\ call.roi_mask.shape = <<2, 3>>
    /\ call.roi_mask.trues = {}
    /\ call.axes = AxesNone
    /\ result.error = "ShapeMismatch"

\* the selected axes as the tuple of their indices in increasing order
SelectedTuple ==
    AxesTuple(CHOOSE t \in [1..Cardinality(SelectedAxes) -> SelectedAxes] :
                  \A j, k \in 1..Cardinality(SelectedAxes) : j < k => t[j] < t[k])

\* C10: every given axis index i is taken as i mod ndim, in [0, ndim), so -k
\* is axis ndim - k; crop_roi depends only on the set of the normalized
\* indices: repeated or reordered axes give the result of the set without
\* repetitions, and axes = None that of all axes.
C10_AxisResolution ==
    (CropRoiDone /\ SameShape) =>
        LET ndim == Ndim(call.arr)
            axes_indices == AxesIndices(call.axes, ndim)
            bySet == crop_roi(call.arr, call.roi_mask, SelectedTuple,
                              call.return_slices)
        IN  /\ \A k \in 1..Len(axes_indices) : axes_indices[k] \in 0..(ndim - 1)
            /\ call.axes.kind # "None" =>
                  \A k \in 1..Len(call.axes.v) :
                      \A j \in 1..ndim :
                          call.axes.v[k] = 0 - j => axes_indices[k] = ndim - j
            /\ call.axes.kind = "None" =>
                  {axes_indices[k] : k \in 1..Len(axes_indices)} = 0..(ndim - 1)
            /\ result.status = bySet.status
            /\ result.error = bySet.error
            /\ result.value = bySet.value
            /\ result.slices = bySet.slices

C10_Witness ==
    /\ CropRoiDone
    /\ call.axes = AxesTuple(<<-1, 1>>)
    /\ call.arr.shape = <<3, 3>>
    /\ call.roi_mask.trues = {<<0, 1>>, <<2, 2>>}
    /\ result.has_slices
    /\ result.slices = <<FullSlice, Slice(1, 3)>>
====
